---- MODULE Spec2Model ----
(***************************************************************************)
(* Grid path planning of Course02/Configuration-Space.ipynb: the Action    *)
(* enumeration, valid_actions and uniform_cost (FIFO search followed by    *)
(* the backward retrace of the branch dictionary).                         *)
(*                                                                         *)
(* Cells are 0-based pairs <<x, y>> as in the notebook; a grid is a        *)
(* sequence of rows, so grid[x, y] of the notebook is g[x + 1][y + 1].     *)
(* A cost is kept exactly as a pair <<o, d>> standing for o + d * sqrt(2): *)
(* o orthogonal moves and d diagonal moves.                                *)
(***************************************************************************)
EXTENDS Integers, Sequences, FiniteSets, TLC

\* ------------------------------------------------------------------ bounds
MaxRows == 3
MaxCols == 3
MaxCells == 6
Band == 1

Calls == {1, 2}

\* ------------------------------------------------------- the Action enum
\* mutant: a diagonal move costs 1, like an orthogonal one
ActionValueUnitDiagonal(a) ==
    CASE a = "LEFT"       -> <<0, -1, <<1, 0>>>>
      [] a = "RIGHT"      -> <<0, 1, <<1, 0>>>>
      [] a = "UP"         -> <<-1, 0, <<1, 0>>>>
      [] a = "DOWN"       -> <<1, 0, <<1, 0>>>>
      [] a = "UP_LEFL"    -> <<-1, -1, <<1, 0>>>>
      [] a = "UP_RIGHT"   -> <<-1, 1, <<1, 0>>>>
      [] a = "DOWN_LEFT"  -> <<1, -1, <<1, 0>>>>
      [] a = "DOWN_RIGHT" -> <<1, 1, <<1, 0>>>>

\* class Action(Enum): value = (delta x, delta y, cost)
ActionValue(a) ==
    CASE a = "LEFT"       -> <<0, -1, <<1, 0>>>>
      [] a = "RIGHT"      -> <<0, 1, <<1, 0>>>>
      [] a = "UP"         -> <<-1, 0, <<1, 0>>>>
      [] a = "DOWN"       -> <<1, 0, <<1, 0>>>>
      [] a = "UP_LEFL"    -> <<-1, -1, <<0, 1>>>>
      [] a = "UP_RIGHT"   -> <<-1, 1, <<0, 1>>>>
      [] a = "DOWN_LEFT"  -> <<1, -1, <<0, 1>>>>
      [] a = "DOWN_RIGHT" -> <<1, 1, <<0, 1>>>>

ActionNames ==
    {"LEFT", "RIGHT", "UP", "DOWN", "UP_LEFL", "UP_RIGHT", "DOWN_LEFT", "DOWN_RIGHT"}

\* Action.cost
ActionCost(a) == ActionValue(a)[3]

\* Action.delta
ActionDelta(a) == <<ActionValue(a)[1], ActionValue(a)[2]>>

\* mutant: the cost of the move alone, the cost so far is dropped
CostAddReset(c, d) == d

\* current_cost + action.cost on exact costs
CostAdd(c, d) == <<c[1] + d[1], c[2] + d[2]>>

\* ------------------------------------------------------------ numpy grid
NumRows(g) == Len(g)
NumCols(g) == Len(g[1])

\* grid[i, j]: numpy accepts -size <= index < size (a negative index counts
\* from the end) and raises IndexError otherwise.
IndexOk(g, i, j) ==
    /\ i >= -NumRows(g) /\ i < NumRows(g)
    /\ j >= -NumCols(g) /\ j < NumCols(g)

GridAt(g, i, j) ==
    g[(IF i < 0 THEN i + NumRows(g) ELSE i) + 1][(IF j < 0 THEN j + NumCols(g) ELSE j) + 1]

\* ---------------------------------------------------------- valid_actions
\* mutant: the list is built in the order the enumeration declares its members
AllActionsEnumOrder ==
    <<"LEFT", "RIGHT", "UP", "DOWN", "UP_LEFL", "UP_RIGHT", "DOWN_LEFT", "DOWN_RIGHT">>

\* the list valid_actions starts from
AllActions ==
    <<"UP", "LEFT", "RIGHT", "DOWN", "UP_LEFL", "UP_RIGHT", "DOWN_LEFT", "DOWN_RIGHT">>

\* the order of the eight if-statements
CheckOrder ==
    <<"UP", "DOWN", "LEFT", "RIGHT", "UP_LEFL", "UP_RIGHT", "DOWN_LEFT", "DOWN_RIGHT">>

\* mutant: the upper bounds tests use >= for >
OffGridTestTight(g, node, a) ==
    LET n == NumRows(g) - 1
        m == NumCols(g) - 1
        x == node[1]
        y == node[2]
    IN  CASE a = "UP"         -> x - 1 < 0
          [] a = "DOWN"       -> x + 1 >= n
          [] a = "LEFT"       -> y - 1 < 0
          [] a = "RIGHT"      -> y + 1 >= m
          [] a = "UP_LEFL"    -> x - 1 < 0 \/ y - 1 < 0
          [] a = "UP_RIGHT"   -> x - 1 < 0 \/ y + 1 >= m
          [] a = "DOWN_LEFT"  -> x + 1 >= n \/ y - 1 < 0
          [] a = "DOWN_RIGHT" -> x + 1 >= n \/ y + 1 >= m

\* the bounds tests of one if-statement, to the left of the grid access
OffGridTest(g, node, a) ==
    LET n == NumRows(g) - 1
        m == NumCols(g) - 1
        x == node[1]
        y == node[2]
    IN  CASE a = "UP"         -> x - 1 < 0
          [] a = "DOWN"       -> x + 1 > n
          [] a = "LEFT"       -> y - 1 < 0
          [] a = "RIGHT"      -> y + 1 > m
          [] a = "UP_LEFL"    -> x - 1 < 0 \/ y - 1 < 0
          [] a = "UP_RIGHT"   -> x - 1 < 0 \/ y + 1 > m
          [] a = "DOWN_LEFT"  -> x + 1 > n \/ y - 1 < 0
          [] a = "DOWN_RIGHT" -> x + 1 > n \/ y + 1 > m

\* the cell the grid access of one if-statement reads
Accessed(node, a) == <<node[1] + ActionDelta(a)[1], node[2] + ActionDelta(a)[2]>>

\* the if-statement of action a raises IndexError: `or` reaches the grid
\* access and the index is out of numpy's range
CheckRaises(g, node, a) ==
    /\ ~OffGridTest(g, node, a)
    /\ ~IndexOk(g, Accessed(node, a)[1], Accessed(node, a)[2])

\* mutant: a diagonal move is also removed when one of the two cells it
\* squeezes between is occupied
CheckRemovesCorners(g, node, a) ==
    \/ OffGridTest(g, node, a)
    \/ GridAt(g, Accessed(node, a)[1], Accessed(node, a)[2]) = 1
    \/ /\ ActionDelta(a)[1] # 0 /\ ActionDelta(a)[2] # 0
       /\ \/ GridAt(g, Accessed(node, a)[1], node[2]) = 1
          \/ GridAt(g, node[1], Accessed(node, a)[2]) = 1

\* mutant: only the bounds are tested, the grid is not read
CheckRemovesBoundsOnly(g, node, a) == OffGridTest(g, node, a)

\* the condition of the if-statement of action a (when it does not raise)
CheckRemoves(g, node, a) ==
    \/ OffGridTest(g, node, a)
    \/ GridAt(g, Accessed(node, a)[1], Accessed(node, a)[2]) = 1

\* one of the eight if-statements raises IndexError
ChecksRaise(g, node) ==
    \E k \in 1..Len(CheckOrder) : CheckRaises(g, node, CheckOrder[k])

\* the if-statement of action a runs valid.remove(a)
Removed(g, node, a) ==
    \E k \in 1..Len(CheckOrder) : CheckOrder[k] = a /\ CheckRemoves(g, node, a)

\* valid_actions(grid, current_node): the list returned, or raised = TRUE
\* when a grid access raises IndexError. Each if-statement removes its own
\* action from the list `valid`, which keeps the order it was built in.
valid_actions(g, node) ==
    IF ChecksRaise(g, node)
    THEN [raised |-> TRUE, valid |-> << >>]
    ELSE [raised |-> FALSE,
          valid |-> SelectSeq(AllActions, LAMBDA a : ~Removed(g, node, a))]

\* ------------------------------------------------------------ the inputs
\* the grid of the notebook's test cell
TestGrid ==
    << <<0, 1, 0, 0, 0, 0>>,
       <<0, 1, 0, 1, 0, 0>>,
       <<0, 1, 0, 0, 0, 0>>,
       <<0, 1, 0, 0, 1, 0>>,
       <<0, 0, 0, 1, 0, 0>> >>

SmallGrids ==
    UNION { [1..r -> [1..c -> {0, 1}]] :
            <<r, c>> \in {rc \in (1..MaxRows) \X (1..MaxCols) : rc[1] * rc[2] <= MaxCells} }

\* a goal at <<1, 1>> with all 8 neighbours occupied, the rest free
EnclosedGrid ==
    << <<1, 1, 1, 0>>,
       <<1, 0, 1, 0>>,
       <<1, 1, 1, 0>>,
       <<0, 0, 0, 0>> >>

Grids == SmallGrids \cup {TestGrid, EnclosedGrid}

OnGridCells(g) == (0..(NumRows(g) - 1)) \X (0..(NumCols(g) - 1))

InputCells(g) == ((-Band)..(NumRows(g) - 1 + Band)) \X ((-Band)..(NumCols(g) - 1 + Band))

OnGrid(g, cell) == cell \in OnGridCells(g)

\* <<start, goal>> pairs given to uniform_cost: any start of the grid or of the
\* band around it, any goal of the grid
InputPairs(g) == InputCells(g) \X OnGridCells(g)

\* ------------------------------------------------------------- the state
VARIABLES
    grid,        \* the grid passed to uniform_cost (shared by the calls)
    start,       \* start[c]: argument of call c
    goal,        \* goal[c]: argument of call c
    queue,       \* queue[c]: the Queue, a sequence of <<node, cost>>
    visited,     \* visited[c]: the set visited
    branch,      \* branch[c]: the dict branch, node -> <<cost, parent, action>>
    found,       \* found[c]
    path,        \* path[c]: the list path of the retrace (goal to start)
    path_cost,   \* path_cost[c]
    n,           \* n[c]: the retrace cursor
    pc,          \* pc[c]: "idle", "loop", "after", "walk", "done", "raised"
    ret,         \* ret[c]: the tuple returned, [path, cost]
    exc,         \* exc[c]: the exception that ended call c, or "none"
    pops,        \* pops[c]: queue.get() calls so far
    steps,       \* steps[c]: steps call c has taken
    data,             \* create_grid: the obstacle table, one 6-tuple per row
    drone_altitude,   \* create_grid: argument
    safety_distance,  \* create_grid: argument
    north_min,        \* create_grid: local, in whole units
    east_min,         \* create_grid: local, in whole units
    north_size,       \* create_grid: local
    east_size,        \* create_grid: local
    cg_grid,          \* create_grid: the local array grid, cell -> 0 or 1
    cg_i,             \* create_grid: the loop index i
    obstacle,         \* create_grid: the list obstacle of the last painting
    cg_pc,            \* create_grid: "idle", "start", "loop", "done"
    points,           \* collinearity: the arguments <<p1, p2, p3>>
    collinear_3D,     \* collinearity_3D: <<what it returned>>, << >> before
    collinear_2D      \* collinearity_2D: <<what it returned>>, << >> before

\* the variables of uniform_cost and those of create_grid
svars == <<grid, start, goal, queue, visited, branch, found, path, path_cost, n, pc,
           ret, exc, pops, steps>>

bvars == <<data, drone_altitude, safety_distance, north_min, east_min, north_size,
           east_size, cg_grid, cg_i, obstacle, cg_pc>>

cvars == <<points, collinear_3D, collinear_2D>>

vars == <<svars, bvars, cvars>>

NoCell == <<-9, -9>>
NoRet == [path |-> <<>>, cost |-> <<-1, -1>>]
EmptyDict == [k \in {} |-> k]

\* set(start): the set of the elements of the tuple start, two integers.
\* An integer k is written <<k>>, so that it differs from every cell <<x, y>>.
SetOfTuple(t) == { <<t[i]>> : i \in 1..Len(t) }

\* visited = set(start)
InitialVisited(s) == SetOfTuple(s)

\* create_grid has not been called
BuilderIdle ==
    /\ data = << >>
    /\ drone_altitude = 0
    /\ safety_distance = 0
    /\ north_min = 0
    /\ east_min = 0
    /\ north_size = 0
    /\ east_size = 0
    /\ cg_grid = EmptyDict
    /\ cg_i = 0
    /\ obstacle = << >>
    /\ cg_pc = "idle"

\* the collinearity functions have not been called
CollinearityIdle ==
    /\ points = << >>
    /\ collinear_3D = << >>
    /\ collinear_2D = << >>

\* the state after lines 396-402 of uniform_cost, for the calls in `active`
\* (argument pairs args[c]); the other calls have not been made
InitCalls(g, active, args) ==
    /\ grid = g
    /\ start = [c \in Calls |-> IF c \in active THEN args[c][1] ELSE NoCell]
    /\ goal = [c \in Calls |-> IF c \in active THEN args[c][2] ELSE NoCell]
    /\ queue = [c \in Calls |-> IF c \in active THEN << <<args[c][1], <<0, 0>>>> >> ELSE << >>]
    /\ visited = [c \in Calls |-> IF c \in active THEN InitialVisited(args[c][1]) ELSE {}]
    /\ branch = [c \in Calls |-> EmptyDict]
    /\ found = [c \in Calls |-> FALSE]
    /\ path = [c \in Calls |-> << >>]
    /\ path_cost = [c \in Calls |-> <<0, 0>>]
    /\ n = [c \in Calls |-> NoCell]
    /\ pc = [c \in Calls |-> IF c \in active THEN "loop" ELSE "idle"]
    /\ ret = [c \in Calls |-> NoRet]
    /\ exc = [c \in Calls |-> "none"]
    /\ pops = [c \in Calls |-> 0]
    /\ steps = [c \in Calls |-> 0]
    /\ BuilderIdle
    /\ CollinearityIdle

\* one call of uniform_cost on any grid and any pair of inputs
Init ==
    \E g \in Grids : \E p \in InputPairs(g) :
        InitCalls(g, {1}, [c \in Calls |-> p])

\* --------------------------------------------------------- uniform_cost
\* the for loop (lines 414-428) over the list `actions`, `seen` being the
\* set visited as the loop has extended it so far: the entries
\* <<next_node, new_cost, action>> of the iterations that find next_node
\* not in visited, in order
RECURSIVE ForActions(_, _, _, _)
ForActions(actions, seen, current_node, current_cost) ==
    IF actions = << >> THEN << >>
    ELSE
        LET action == Head(actions)
            delta == ActionDelta(action)
            next_node == <<current_node[1] + delta[1], current_node[2] + delta[2]>>
            new_cost == CostAdd(current_cost, ActionCost(action))
        IN  IF next_node \notin seen
            THEN <<<<next_node, new_cost, action>>>> \o
                 ForActions(Tail(actions), seen \cup {next_node}, current_node, current_cost)
            ELSE ForActions(Tail(actions), seen, current_node, current_cost)

\* mutant: visited is one set shared by all calls
VisitedAddShared(v, entries) ==
    UNION {visited[c] : c \in Calls} \cup {entries[i][1] : i \in 1..Len(entries)}

\* mutant: the cells put on the queue are not marked (they would be marked
\* when taken from the queue)
VisitedAddLater(v, entries) == v

\* visited.add(next_node) for every entry
VisitedAdd(v, entries) == v \cup {entries[i][1] : i \in 1..Len(entries)}

\* mutant: a LIFO queue, the entries are put at the head
QueuePutFront(q, entries) ==
    [i \in 1..Len(entries) |-> <<entries[i][1], entries[i][2]>>] \o q

\* queue.put((next_node, new_cost)) for every entry, in order
QueuePut(q, entries) == q \o [i \in 1..Len(entries) |-> <<entries[i][1], entries[i][2]>>]

\* branch[next_node] = (new_cost, current_node, action) for every entry
BranchSet(b, entries, current_node) ==
    [x \in DOMAIN b \cup {entries[i][1] : i \in 1..Len(entries)} |->
        IF \E i \in 1..Len(entries) : entries[i][1] = x
        THEN LET i == CHOOSE k \in 1..Len(entries) :
                        /\ entries[k][1] = x
                        /\ \A l \in (k + 1)..Len(entries) : entries[l][1] # x
             IN  <<entries[i][2], current_node, entries[i][3]>>
        ELSE b[x]]

\* one iteration of `while not queue.empty()` (lines 404-428); the list of
\* valid actions and the entries of the for loop are each computed once
LoopIteration(c) ==
    /\ pc[c] = "loop"
    /\ queue[c] # << >>
    /\ LET current_node == Head(queue[c])[1]
           current_cost == Head(queue[c])[2]
           rest == Tail(queue[c])
       IN  /\ pops' = [pops EXCEPT ![c] = @ + 1]
           /\ IF current_node = goal[c]
              THEN /\ found' = [found EXCEPT ![c] = TRUE]
                   /\ queue' = [queue EXCEPT ![c] = rest]
                   /\ pc' = [pc EXCEPT ![c] = "after"]
                   /\ UNCHANGED <<visited, branch, exc>>
              ELSE \E va \in {valid_actions(grid, current_node)} :
                       IF va.raised
                       THEN /\ queue' = [queue EXCEPT ![c] = rest]
                            /\ pc' = [pc EXCEPT ![c] = "raised"]
                            /\ exc' = [exc EXCEPT ![c] = "IndexError"]
                            /\ UNCHANGED <<visited, branch, found>>
                       ELSE \E entries \in {ForActions(va.valid, visited[c], current_node,
                                                       current_cost)} :
                                /\ queue' = [queue EXCEPT ![c] = QueuePut(rest, entries)]
                                /\ visited' = [visited EXCEPT ![c] = VisitedAdd(@, entries)]
                                /\ branch' = [branch EXCEPT
                                                ![c] = BranchSet(@, entries, current_node)]
                                /\ UNCHANGED <<found, pc, exc>>
    /\ steps' = [steps EXCEPT ![c] = @ + 1]
    /\ UNCHANGED bvars
    /\ UNCHANGED cvars
    /\ UNCHANGED <<grid, start, goal, path, path_cost, n, ret>>

\* mutant: the loop does not test the queue (while True), and queue.get()
\* blocks on the empty queue
LoopExitBlocks(c) ==
    /\ pc[c] = "loop"
    /\ queue[c] = << >>
    /\ UNCHANGED vars

\* the loop condition fails: the queue is empty (line 404)
LoopExit(c) ==
    /\ pc[c] = "loop"
    /\ queue[c] = << >>
    /\ pc' = [pc EXCEPT ![c] = "after"]
    /\ steps' = [steps EXCEPT ![c] = @ + 1]
    /\ UNCHANGED bvars
    /\ UNCHANGED cvars
    /\ UNCHANGED <<grid, start, goal, queue, visited, branch, found, path, path_cost, n,
                   ret, exc, pops>>

\* mutant: the path is returned as the retrace built it, goal to start
ReversedNot(s) == s

\* path[::-1]
RECURSIVE Reversed(_)
Reversed(s) == IF s = << >> THEN << >> ELSE Append(Reversed(Tail(s)), Head(s))

\* lines 430-437: reset path and path_cost; when found, read branch[goal][0]
\* (KeyError when goal has no entry); when not found, return (line 443)
RetraceStart(c) ==
    /\ pc[c] = "after"
    /\ path' = [path EXCEPT ![c] = << >>]
    /\ IF found[c]
       THEN IF goal[c] \in DOMAIN branch[c]
            THEN /\ n' = [n EXCEPT ![c] = goal[c]]
                 /\ path_cost' = [path_cost EXCEPT ![c] = branch[c][goal[c]][1]]
                 /\ pc' = [pc EXCEPT ![c] = "walk"]
                 /\ UNCHANGED <<ret, exc>>
            ELSE /\ n' = [n EXCEPT ![c] = goal[c]]
                 /\ path_cost' = [path_cost EXCEPT ![c] = <<0, 0>>]
                 /\ pc' = [pc EXCEPT ![c] = "raised"]
                 /\ exc' = [exc EXCEPT ![c] = "KeyError"]
                 /\ UNCHANGED ret
       ELSE /\ path_cost' = [path_cost EXCEPT ![c] = <<0, 0>>]
            /\ ret' = [ret EXCEPT ![c] = [path |-> Reversed(<< >>), cost |-> <<0, 0>>]]
            /\ pc' = [pc EXCEPT ![c] = "done"]
            /\ UNCHANGED <<n, exc>>
    /\ steps' = [steps EXCEPT ![c] = @ + 1]
    /\ UNCHANGED bvars
    /\ UNCHANGED cvars
    /\ UNCHANGED <<grid, start, goal, queue, visited, branch, found, pops>>

\* one iteration of `while branch[n][1] != start` (lines 438-440)
WalkStep(c) ==
    /\ pc[c] = "walk"
    /\ n[c] \in DOMAIN branch[c]
    /\ branch[c][n[c]][2] # start[c]
    /\ path' = [path EXCEPT ![c] = Append(@, branch[c][n[c]][3])]
    /\ n' = [n EXCEPT ![c] = branch[c][n[c]][2]]
    /\ steps' = [steps EXCEPT ![c] = @ + 1]
    /\ UNCHANGED bvars
    /\ UNCHANGED cvars
    /\ UNCHANGED <<grid, start, goal, queue, visited, branch, found, path_cost, pc, ret,
                   exc, pops>>

\* the walk ends: the loop condition fails, the last append and the return
\* (lines 438, 441-443); or branch[n] raises KeyError in the loop condition
WalkEnd(c) ==
    /\ pc[c] = "walk"
    /\ IF n[c] \in DOMAIN branch[c]
       THEN /\ branch[c][n[c]][2] = start[c]
            /\ path' = [path EXCEPT ![c] = Append(@, branch[c][n[c]][3])]
            /\ ret' = [ret EXCEPT
                         ![c] = [path |-> Reversed(Append(path[c], branch[c][n[c]][3])),
                                 cost |-> path_cost[c]]]
            /\ pc' = [pc EXCEPT ![c] = "done"]
            /\ UNCHANGED exc
       ELSE /\ pc' = [pc EXCEPT ![c] = "raised"]
            /\ exc' = [exc EXCEPT ![c] = "KeyError"]
            /\ UNCHANGED <<path, ret>>
    /\ steps' = [steps EXCEPT ![c] = @ + 1]
    /\ UNCHANGED bvars
    /\ UNCHANGED cvars
    /\ UNCHANGED <<grid, start, goal, queue, visited, branch, found, path_cost, n, pops>>

Next ==
    \E c \in Calls :
        \/ LoopIteration(c)
        \/ LoopExit(c)
        \/ RetraceStart(c)
        \/ WalkStep(c)
        \/ WalkEnd(c)

Spec == Init /\ [][Next]_vars

\* uniform_cost is synchronous and nothing suspends it: a call that can take
\* a step takes it
LiveSpec == Spec /\ WF_vars(Next)

\* Two calls of uniform_cost with identical arguments, their steps interleaved
\* in any order: on the grids of at most TwinCells cells with any start and
\* goal of the grid, and on the test grid with the test cell's start and goal
TwinCells == 4

TwinInit ==
    \/ \E g \in {h \in SmallGrids : NumRows(h) * NumCols(h) <= TwinCells} :
          \E p \in OnGridCells(g) \X OnGridCells(g) :
              InitCalls(g, Calls, [c \in Calls |-> p])
    \/ InitCalls(TestGrid, Calls, [c \in Calls |-> <<<<0, 0>>, <<4, 4>>>>])

TwinSpec == TwinInit /\ [][Next]_vars

\* Two calls of uniform_cost on the same grid, each with its own start and
\* goal, their steps interleaved in any order
PairInit ==
    \E g \in {h \in SmallGrids : NumRows(h) * NumCols(h) <= TwinCells} :
        \E p1 \in OnGridCells(g) \X OnGridCells(g) :
            \E p2 \in OnGridCells(g) \X OnGridCells(g) :
                InitCalls(g, Calls, [c \in Calls |-> IF c = 1 THEN p1 ELSE p2])

PairSpec == PairInit /\ [][Next]_vars

\* uniform_cost run alone, from the call to its end, as one computation:
\* the while loop (lines 404-428) ...
RECURSIVE SoloLoop(_, _, _, _, _)
SoloLoop(g, t, q, v, b) ==
    IF q = << >> THEN [found |-> FALSE, raised |-> FALSE, branch |-> b]
    ELSE LET current_node == Head(q)[1]
             current_cost == Head(q)[2]
         IN  IF current_node = t THEN [found |-> TRUE, raised |-> FALSE, branch |-> b]
             ELSE LET va == valid_actions(g, current_node)
                      entries == ForActions(va.valid, v, current_node, current_cost)
                  IN  IF va.raised THEN [found |-> FALSE, raised |-> TRUE, branch |-> b]
                      ELSE SoloLoop(g, t, QueuePut(Tail(q), entries),
                                    v \cup {entries[i][1] : i \in 1..Len(entries)},
                                    BranchSet(b, entries, current_node))

\* ... the walk back from goal (lines 438-442), the list path being acc ...
RECURSIVE SoloWalk(_, _, _, _)
SoloWalk(b, s, node, acc) ==
    IF node \notin DOMAIN b THEN [raised |-> TRUE, path |-> acc]
    ELSE IF b[node][2] = s THEN [raised |-> FALSE, path |-> Append(acc, b[node][3])]
    ELSE SoloWalk(b, s, b[node][2], Append(acc, b[node][3]))

\* ... and the outcome: how the call ends, what it returns, what it raises
SoloRun(g, s, t) ==
    LET loop == SoloLoop(g, t, << <<s, <<0, 0>>>> >>, InitialVisited(s), EmptyDict)
    IN  IF loop.raised THEN <<"raised", NoRet, "IndexError">>
        ELSE IF ~loop.found THEN <<"done", [path |-> << >>, cost |-> <<0, 0>>], "none">>
        ELSE IF t \notin DOMAIN loop.branch THEN <<"raised", NoRet, "KeyError">>
        ELSE LET walk == SoloWalk(loop.branch, s, t, << >>)
             IN  IF walk.raised THEN <<"raised", NoRet, "KeyError">>
                 ELSE <<"done", [path |-> Reversed(walk.path), cost |-> loop.branch[t][1]],
                        "none">>

\* ------------------------------------------------------------ create_grid
\* The table data holds real numbers. They are kept exactly, as integers in
\* units of 1/Scale (Scale = 2: halves), so that floor and ceil round; the
\* locals north_min, east_min and the sizes are in whole units, the values
\* np.floor and np.ceil give.
Scale == 2

\* np.floor(x) and np.ceil(x) of x given in units of 1/Scale
Floor(x) == x \div Scale
Ceil(x) == -((-x) \div Scale)

Max2(a, b) == IF a >= b THEN a ELSE b
Min2(a, b) == IF a <= b THEN a ELSE b

\* np.amin and np.amax of a non-empty set of numbers
AMin(S) == CHOOSE x \in S : \A y \in S : x <= y
AMax(S) == CHOOSE x \in S : \A y \in S : x >= y

\* north_min, north_max (lines 129-130), east_min, east_max (lines 133-134):
\* column k is the centre, column k + 3 the half-extent
LowEdge(d, k) == Floor(AMin({d[j][k] - d[j][k + 3] : j \in 1..Len(d)}))
HighEdge(d, k) == Ceil(AMax({d[j][k] + d[j][k + 3] : j \in 1..Len(d)}))

\* mutant: the extremes are not rounded before they are subtracted
SizeOfUnrounded(d, k) ==
    Ceil(AMax({d[j][k] + d[j][k + 3] : j \in 1..Len(d)})
         - AMin({d[j][k] - d[j][k + 3] : j \in 1..Len(d)}))

\* north_size, east_size (lines 138-139): int(np.ceil(max - min)) of two
\* whole numbers
SizeOf(d, k) == HighEdge(d, k) - LowEdge(d, k)

\* mutant: an obstacle at the margin boundary is painted too
AltitudeHitsInclusive(row, altitude, safety) ==
    /\ altitude >= row[3] - row[6] - safety
    /\ altitude <= row[3] + row[6] + safety

\* the condition of line 151
AltitudeHits(row, altitude, safety) ==
    /\ altitude > row[3] - row[6] - safety
    /\ altitude < row[3] + row[6] + safety

\* mutant: the safety distance is added to the low edges instead of
\* subtracted
ObstacleOfPulledIn(row, safety, nmin, emin, nsize, esize) ==
    << Max2(0, Floor(row[1] - row[4] + safety - nmin * Scale)),
       Min2(nsize, Ceil(row[1] + row[4] + safety - nmin * Scale)),
       Max2(0, Floor(row[2] - row[5] + safety - emin * Scale)),
       Min2(esize, Ceil(row[2] + row[5] + safety - emin * Scale)) >>

\* the list obstacle of lines 152-155
ObstacleOf(row, safety, nmin, emin, nsize, esize) ==
    << Max2(0, Floor(row[1] - row[4] - safety - nmin * Scale)),
       Min2(nsize, Ceil(row[1] + row[4] + safety - nmin * Scale)),
       Max2(0, Floor(row[2] - row[5] - safety - emin * Scale)),
       Min2(esize, Ceil(row[2] + row[5] + safety - emin * Scale)) >>

\* the indices a numpy slice lo:hi selects on an axis of the given size: a
\* negative bound counts from the end, and both are clipped to the axis
SliceBound(x, size) == IF x < 0 THEN Max2(x + size, 0) ELSE Min2(x, size)
SliceRange(lo, hi, size) == SliceBound(lo, size)..(SliceBound(hi, size) - 1)

\* the cells of grid[obstacle[0]:obstacle[1]+1, obstacle[2]:obstacle[3]+1]
PaintedCells(ob, nsize, esize) ==
    SliceRange(ob[1], ob[2] + 1, nsize) \X SliceRange(ob[3], ob[4] + 1, esize)

\* lines 129-145: the extent of the grid and np.zeros
GridAllocate ==
    /\ cg_pc = "start"
    /\ north_min' = LowEdge(data, 1)
    /\ east_min' = LowEdge(data, 2)
    /\ north_size' = SizeOf(data, 1)
    /\ east_size' = SizeOf(data, 2)
    /\ cg_grid' = [cell \in (0..(SizeOf(data, 1) - 1)) \X (0..(SizeOf(data, 2) - 1)) |-> 0]
    /\ cg_i' = 0
    /\ cg_pc' = "loop"
    /\ UNCHANGED <<data, drone_altitude, safety_distance, obstacle>>
    /\ UNCHANGED svars
    /\ UNCHANGED cvars

\* one iteration of `for i in range(data.shape[0])` (lines 147-156)
PaintIteration ==
    /\ cg_pc = "loop"
    /\ cg_i < Len(data)
    /\ IF AltitudeHits(data[cg_i + 1], drone_altitude, safety_distance)
       THEN \E ob \in {ObstacleOf(data[cg_i + 1], safety_distance, north_min, east_min,
                                  north_size, east_size)} :
                /\ obstacle' = ob
                /\ cg_grid' = [cell \in DOMAIN cg_grid |->
                                 IF cell \in PaintedCells(ob, north_size, east_size)
                                 THEN 1 ELSE cg_grid[cell]]
       ELSE UNCHANGED <<obstacle, cg_grid>>
    /\ cg_i' = cg_i + 1
    /\ UNCHANGED <<data, drone_altitude, safety_distance, north_min, east_min, north_size,
                   east_size, cg_pc>>
    /\ UNCHANGED svars
    /\ UNCHANGED cvars

\* the loop is over: return grid (line 158)
GridReturn ==
    /\ cg_pc = "loop"
    /\ cg_i = Len(data)
    /\ cg_pc' = "done"
    /\ UNCHANGED <<data, drone_altitude, safety_distance, north_min, east_min, north_size,
                   east_size, cg_grid, cg_i, obstacle>>
    /\ UNCHANGED svars
    /\ UNCHANGED cvars

\* create_grid run from the call to the return, as one computation: the cells
\* the for loop (lines 147-156) has set to 1 after the rows i + 1 .. of d ...
RECURSIVE PaintRows(_, _, _, _, _)
PaintRows(d, i, altitude, safety, ones) ==
    IF i = Len(d) THEN ones
    ELSE IF AltitudeHits(d[i + 1], altitude, safety)
         THEN PaintRows(d, i + 1, altitude, safety,
                        ones \cup PaintedCells(ObstacleOf(d[i + 1], safety, LowEdge(d, 1),
                                                          LowEdge(d, 2), SizeOf(d, 1),
                                                          SizeOf(d, 2)),
                                               SizeOf(d, 1), SizeOf(d, 2)))
         ELSE PaintRows(d, i + 1, altitude, safety, ones)

\* ... and the grid returned, with its shape
create_grid(d, altitude, safety) ==
    LET ones == PaintRows(d, 0, altitude, safety, {})
    IN  [north_size |-> SizeOf(d, 1),
         east_size |-> SizeOf(d, 2),
         grid |-> [cell \in (0..(SizeOf(d, 1) - 1)) \X (0..(SizeOf(d, 2) - 1)) |->
                     IF cell \in ones THEN 1 ELSE 0]]

\* the inputs of create_grid, in units of 1/Scale
MaxNorth == 2
MaxEast == 0
MaxHalf == 1
MaxSafety == 1
MaxAltitude == 6

\* every obstacle is centred at the same height; its half-height is one of two
ObstacleAlt == 3
HalfAlts == {0, 1}

Obstacles ==
    (0..MaxNorth) \X (0..MaxEast) \X {ObstacleAlt} \X (0..MaxHalf) \X (0..MaxHalf)
        \X HalfAlts

DataLengths == {1, 2}

Tables == UNION {[1..len -> Obstacles] : len \in DataLengths}

\* the obstacle of the boundary scenario: centre (37, 12, 8), half-extents
\* (5, 5, 8), safety distance 3, several altitudes
ScenarioObstacle == <<37 * Scale, 12 * Scale, 8 * Scale, 5 * Scale, 5 * Scale, 8 * Scale>>
ScenarioSafety == 3 * Scale
ScenarioAltitudes == {5 * Scale, 20 * Scale, 19 * Scale, (-3) * Scale}

\* create_grid is called; uniform_cost is not
BuilderCalled(d, altitude, safety) ==
    /\ data = d
    /\ drone_altitude = altitude
    /\ safety_distance = safety
    /\ north_min = 0
    /\ east_min = 0
    /\ north_size = 0
    /\ east_size = 0
    /\ cg_grid = EmptyDict
    /\ cg_i = 0
    /\ obstacle = << >>
    /\ cg_pc = "start"
    /\ CollinearityIdle
    /\ grid = << >>
    /\ start = [c \in Calls |-> NoCell]
    /\ goal = [c \in Calls |-> NoCell]
    /\ queue = [c \in Calls |-> << >>]
    /\ visited = [c \in Calls |-> {}]
    /\ branch = [c \in Calls |-> EmptyDict]
    /\ found = [c \in Calls |-> FALSE]
    /\ path = [c \in Calls |-> << >>]
    /\ path_cost = [c \in Calls |-> <<0, 0>>]
    /\ n = [c \in Calls |-> NoCell]
    /\ pc = [c \in Calls |-> "idle"]
    /\ ret = [c \in Calls |-> NoRet]
    /\ exc = [c \in Calls |-> "none"]
    /\ pops = [c \in Calls |-> 0]
    /\ steps = [c \in Calls |-> 0]

GridInit ==
    \/ \E d \in Tables : \E altitude \in 0..MaxAltitude : \E safety \in 0..MaxSafety :
          BuilderCalled(d, altitude, safety)
    \/ \E altitude \in ScenarioAltitudes :
          BuilderCalled(<<ScenarioObstacle>>, altitude, ScenarioSafety)

GridNext == GridAllocate \/ PaintIteration \/ GridReturn

GridSpec == GridInit /\ [][GridNext]_vars

\* ----------------------------------------------------------- collinearity
\* A point is a pair <<x, y>> of integers (the int64 arrays of lines 562-564;
\* the coordinates are far too small for the 64-bit products to wrap).

\* to3dmat: np.ones((3, 3)) with the points stacked in the first two columns
to3dmat(p1, p2, p3) ==
    << <<p1[1], p1[2], 1>>, <<p2[1], p2[2], 1>>, <<p3[1], p3[2], 1>> >>

\* np.linalg.det of a 3x3 matrix of integers: its exact value (the floating
\* point result differs from it by far less than epsilon on these inputs)
Det3(mat) ==
      mat[1][1] * (mat[2][2] * mat[3][3] - mat[2][3] * mat[3][2])
    - mat[1][2] * (mat[2][1] * mat[3][3] - mat[2][3] * mat[3][1])
    + mat[1][3] * (mat[2][1] * mat[3][2] - mat[2][2] * mat[3][1])

Abs(x) == IF x < 0 THEN -x ELSE x

\* epsilon = 1e-2, kept as its inverse: np.abs(det) < epsilon is
\* np.abs(det) * 100 < 1
EpsilonInverse == 100

\* collinearity_3D with the default epsilon
collinearity_3D(p1, p2, p3) ==
    LET det == Det3(to3dmat(p1, p2, p3))
    IN  IF Abs(det) * EpsilonInverse < 1 THEN TRUE ELSE FALSE

\* mutant: the last term has the wrong sign inside
Det2DSlip(p1, p2, p3) ==
    p1[1] * (p2[2] - p3[2]) + p2[1] * (p3[2] - p1[2]) + p3[1] * (p1[2] + p2[2])

\* det of collinearity_2D (lines 613-615)
Det2D(p1, p2, p3) ==
    p1[1] * (p2[2] - p3[2]) + p2[1] * (p3[2] - p1[2]) + p3[1] * (p1[2] - p2[2])

\* collinearity_2D
collinearity_2D(p1, p2, p3) ==
    LET det == Det2D(p1, p2, p3)
    IN  IF det = 0 THEN TRUE ELSE FALSE

\* collinear = collinearity_3D(p1, p2, p3) (line 648)
Call3D ==
    /\ points # << >>
    /\ collinear_3D = << >>
    /\ collinear_3D' = <<collinearity_3D(points[1], points[2], points[3])>>
    /\ UNCHANGED <<points, collinear_2D>>
    /\ UNCHANGED svars
    /\ UNCHANGED bvars

\* collinear = collinearity_2D(p1, p2, p3) (line 652)
Call2D ==
    /\ points # << >>
    /\ collinear_2D = << >>
    /\ collinear_2D' = <<collinearity_2D(points[1], points[2], points[3])>>
    /\ UNCHANGED <<points, collinear_3D>>
    /\ UNCHANGED svars
    /\ UNCHANGED bvars

\* the points: every pair of coordinates up to MaxPoint in size, and the
\* points of the notebook
MaxPoint == 2

PointChoices == ((-MaxPoint)..MaxPoint) \X ((-MaxPoint)..MaxPoint)

TestPoints == << <<1, 2>>, <<2, 3>>, <<3, 4>> >>

\* uniform_cost has not been called
SearchIdle ==
    /\ grid = << >>
    /\ start = [c \in Calls |-> NoCell]
    /\ goal = [c \in Calls |-> NoCell]
    /\ queue = [c \in Calls |-> << >>]
    /\ visited = [c \in Calls |-> {}]
    /\ branch = [c \in Calls |-> EmptyDict]
    /\ found = [c \in Calls |-> FALSE]
    /\ path = [c \in Calls |-> << >>]
    /\ path_cost = [c \in Calls |-> <<0, 0>>]
    /\ n = [c \in Calls |-> NoCell]
    /\ pc = [c \in Calls |-> "idle"]
    /\ ret = [c \in Calls |-> NoRet]
    /\ exc = [c \in Calls |-> "none"]
    /\ pops = [c \in Calls |-> 0]
    /\ steps = [c \in Calls |-> 0]

PointsInit ==
    /\ points \in (PointChoices \X PointChoices \X PointChoices) \cup {TestPoints}
    /\ collinear_3D = << >>
    /\ collinear_2D = << >>
    /\ SearchIdle
    /\ BuilderIdle

PointsNext == Call3D \/ Call2D

PointsSpec == PointsInit /\ [][PointsNext]_vars

\* =================================================================== claims
\* The grid graph as the specification describes it, written without
\* valid_actions: a move is valid when its destination is an on-grid free cell.
SpecDelta(a) ==
    CASE a = "UP"         -> <<-1, 0>>
      [] a = "DOWN"       -> <<1, 0>>
      [] a = "LEFT"       -> <<0, -1>>
      [] a = "RIGHT"      -> <<0, 1>>
      [] a = "UP_LEFL"    -> <<-1, -1>>
      [] a = "UP_RIGHT"   -> <<-1, 1>>
      [] a = "DOWN_LEFT"  -> <<1, -1>>
      [] a = "DOWN_RIGHT" -> <<1, 1>>

IsDiagonal(a) == a \in {"UP_LEFL", "UP_RIGHT", "DOWN_LEFT", "DOWN_RIGHT"}

SpecCost(a) == IF IsDiagonal(a) THEN <<0, 1>> ELSE <<1, 0>>

FreeCell(g, cell) == OnGrid(g, cell) /\ g[cell[1] + 1][cell[2] + 1] = 0

Dest(cell, a) == <<cell[1] + SpecDelta(a)[1], cell[2] + SpecDelta(a)[2]>>

Neighbours(g, cells) ==
    {d \in {Dest(u, a) : u \in cells, a \in ActionNames} : FreeCell(g, d)}

RECURSIVE Closure(_, _)
Closure(g, cells) ==
    LET more == cells \cup Neighbours(g, cells)
    IN  IF more = cells THEN cells ELSE Closure(g, more)

\* t can be reached from s by a finite sequence of valid moves
Reachable(g, s, t) == t \in Closure(g, {s})

\* the cells entered when the action sequence p is replayed from cell
RECURSIVE Replay(_, _)
Replay(cell, p) ==
    IF p = << >> THEN << >>
    ELSE <<Dest(cell, Head(p))>> \o Replay(Dest(cell, Head(p)), Tail(p))

RECURSIVE SumCost(_)
SumCost(p) == IF p = << >> THEN <<0, 0>> ELSE CostAdd(SpecCost(Head(p)), SumCost(Tail(p)))

Active(c) == pc[c] # "idle"
Ended(c) == pc[c] \in {"done", "raised"}

TestPath == <<"DOWN", "DOWN", "DOWN", "DOWN_RIGHT", "RIGHT", "UP_RIGHT", "DOWN_RIGHT">>

\* C1: on the 5x6 test grid with start (0,0) and goal (4,4) a call that has
\* ended has succeeded and returned the 7 actions DOWN, DOWN, DOWN, DOWN-RIGHT,
\* RIGHT, UP-RIGHT, DOWN-RIGHT with total cost 4 + 3*sqrt(2).
C1_TestScenario ==
    \A c \in Calls :
        (grid = TestGrid /\ start[c] = <<0, 0>> /\ goal[c] = <<4, 4>>)
        => /\ pc[c] # "raised"
           /\ pc[c] \in {"walk", "done"} => found[c]
           /\ pc[c] = "done" => ret[c] = [path |-> TestPath, cost |-> <<4, 3>>]

C1_Witness ==
    /\ grid = TestGrid /\ start[1] = <<0, 0>> /\ goal[1] = <<4, 4>>
    /\ pc[1] = "done" /\ found[1]
    /\ ret[1] = [path |-> TestPath, cost |-> <<4, 3>>]

\* C2: for every grid and every start and goal cell of the grid with
\* start # goal, a call that reports success returns a path whose replay from
\* start enters only on-grid free cells, ends on goal, and whose returned
\* cost is the sum of the costs of its actions (1 orthogonal, sqrt(2) diagonal).
C2_PathSound ==
    \A c \in Calls :
        (pc[c] = "done" /\ found[c] /\ start[c] # goal[c] /\ OnGrid(grid, start[c]))
        => LET p == ret[c].path
               cells == Replay(start[c], p)
           IN  /\ p # << >>
               /\ \A i \in 1..Len(cells) : FreeCell(grid, cells[i])
               /\ cells[Len(cells)] = goal[c]
               /\ ret[c].cost = SumCost(p)

C2_Witness ==
    /\ pc[1] = "done" /\ found[1] /\ start[1] # goal[1] /\ OnGrid(grid, start[1])
    /\ Len(ret[1].path) >= 3
    /\ ret[1].cost[1] > 0 /\ ret[1].cost[2] > 0

\* C3: for every grid and on-grid free start and goal, if goal can be reached
\* from start by valid moves, the call eventually has found = TRUE.
C3_ReachableFound ==
    \A c \in Calls :
        (/\ pc[c] = "loop" /\ pops[c] = 0
         /\ FreeCell(grid, start[c]) /\ FreeCell(grid, goal[c])
         /\ Reachable(grid, start[c], goal[c]))
        ~> found[c]

C3_Witness ==
    /\ FreeCell(grid, start[1]) /\ FreeCell(grid, goal[1])
    /\ start[1] # goal[1]
    /\ Reachable(grid, start[1], goal[1])
    /\ found[1] /\ pops[1] >= 4

\* C4: if goal differs from start (a cell of the grid) and cannot be reached
\* from it by valid moves, the call never sets found, raises nothing, leaves
\* the loop only with the frontier empty and returns the empty path with
\* cost 0.
C4_UnreachableEmpty ==
    \A c \in Calls :
        (/\ Active(c) /\ start[c] # goal[c] /\ OnGrid(grid, start[c])
         /\ ~Reachable(grid, start[c], goal[c]))
        => /\ ~found[c]
           /\ exc[c] = "none"
           /\ pc[c] \in {"loop", "after", "done"}
           /\ pc[c] \in {"after", "done"} => queue[c] = << >>
           /\ pc[c] = "done" => ret[c] = [path |-> << >>, cost |-> <<0, 0>>]

\* the goal is enclosed by occupied cells on all 8 neighbours
C4_Witness ==
    /\ grid = EnclosedGrid /\ goal[1] = <<1, 1>> /\ start[1] = <<3, 3>>
    /\ pc[1] = "done" /\ ~found[1] /\ pops[1] >= 2
    /\ ret[1] = [path |-> << >>, cost |-> <<0, 0>>]

\* C5: if start = goal (an on-grid free cell), a call that has ended has
\* returned the empty path with cost 0 and raised nothing.
C5_StartIsGoalEmpty ==
    \A c \in Calls :
        (Ended(c) /\ start[c] = goal[c] /\ FreeCell(grid, start[c]))
        => /\ pc[c] = "done"
           /\ exc[c] = "none"
           /\ ret[c] = [path |-> << >>, cost |-> <<0, 0>>]

\* o1 + d1 * sqrt(2) < o2 + d2 * sqrt(2), on integers
CostLess(a, b) ==
    LET p == b[1] - a[1]
        q == a[2] - b[2]
    IN  \/ p > 0 /\ q <= 0
        \/ p > 0 /\ q > 0 /\ 2 * q * q < p * p
        \/ p <= 0 /\ q < 0 /\ 2 * q * q > p * p

MinOf(costs) == CHOOSE x \in costs : \A y \in costs : ~CostLess(y, x)

\* one round of relaxation of the least costs d known from the start
Relax(g, d) ==
    [v \in (DOMAIN d) \cup Neighbours(g, DOMAIN d) |->
        MinOf((IF v \in DOMAIN d THEN {d[v]} ELSE {}) \cup
              {CostAdd(d[ua[1]], SpecCost(ua[2])) :
                 ua \in {x \in (DOMAIN d) \X ActionNames :
                           Dest(x[1], x[2]) = v /\ FreeCell(g, v)}})]

RECURSIVE LeastCosts(_, _)
LeastCosts(g, d) ==
    LET e == Relax(g, d) IN IF e = d THEN d ELSE LeastCosts(g, e)

\* the least summed cost of a sequence of valid moves from s to t
MinCost(g, s, t) == LeastCosts(g, [v \in {s} |-> <<0, 0>>])[t]

\* C6: for every grid and reachable goal (start and goal on-grid free cells,
\* start # goal) the cost returned is the minimum over all sequences of valid
\* moves from start to goal of the summed action costs.
C6_MinimumCost ==
    \A c \in Calls :
        (/\ pc[c] = "done" /\ found[c] /\ start[c] # goal[c]
         /\ FreeCell(grid, start[c]) /\ FreeCell(grid, goal[c]))
        => ret[c].cost = MinCost(grid, start[c], goal[c])

\* the actions the specification lets valid_actions return for a cell
SpecValid(g, cell) == {a \in ActionNames : FreeCell(g, Dest(cell, a))}

SeqRange(s) == {s[i] : i \in 1..Len(s)}

\* no call has taken a step: the grid never changes, so what holds of the
\* grid in these states holds of it throughout
NotStarted == \A c \in Calls : steps[c] = 0

\* C7: for every grid with cells in {0,1} and every on-grid cell,
\* valid_actions returns (without raising, each action once) exactly the
\* actions whose destination cell + delta is on-grid and free; the corner
\* cells next to a diagonal destination play no part.
C7_ValidActionsExact ==
    NotStarted =>
        \A cell \in OnGridCells(grid) :
            LET va == valid_actions(grid, cell)
            IN  /\ ~va.raised
                /\ SeqRange(va.valid) = SpecValid(grid, cell)
                /\ Len(va.valid) = Cardinality(SpecValid(grid, cell))

\* the search expands a cell whose DOWN and RIGHT neighbours are occupied and
\* whose DOWN-RIGHT neighbour is free, and enqueues that diagonal neighbour
C7_Witness ==
    /\ pc[1] = "loop" /\ pops[1] = 1
    /\ OnGrid(grid, start[1])
    /\ OnGrid(grid, Dest(start[1], "DOWN")) /\ ~FreeCell(grid, Dest(start[1], "DOWN"))
    /\ OnGrid(grid, Dest(start[1], "RIGHT")) /\ ~FreeCell(grid, Dest(start[1], "RIGHT"))
    /\ Dest(start[1], "DOWN_RIGHT") \in DOMAIN branch[1]
    /\ branch[1][Dest(start[1], "DOWN_RIGHT")][3] = "DOWN_RIGHT"

\* s lists some of the elements of order, each once, in the order of `order`
InOrderOf(s, order) ==
    \A i, j \in 1..Len(s) :
        i < j => \E k, l \in 1..Len(order) : k < l /\ order[k] = s[i] /\ order[l] = s[j]

SpecOrder ==
    <<"UP", "DOWN", "LEFT", "RIGHT", "UP_LEFL", "UP_RIGHT", "DOWN_LEFT", "DOWN_RIGHT">>

CodeOrder ==
    <<"UP", "LEFT", "RIGHT", "DOWN", "UP_LEFL", "UP_RIGHT", "DOWN_LEFT", "DOWN_RIGHT">>

\* valid_actions lists its actions in the order of `order`, and so do the
\* entries the first expansion of a search appends to the frontier
ListedInOrder(order) ==
    /\ NotStarted =>
           \A cell \in OnGridCells(grid) :
               InOrderOf(valid_actions(grid, cell).valid, order)
    /\ \A c \in Calls :
           (pc[c] = "loop" /\ pops[c] = 1 /\ OnGrid(grid, start[c]))
           => InOrderOf([i \in 1..Len(queue[c]) |-> branch[c][queue[c][i][1]][3]], order)

\* C8 as stated: the actions valid_actions returns, and so the neighbours the
\* search examines, appear in the order UP, DOWN, LEFT, RIGHT, UP-LEFT,
\* UP-RIGHT, DOWN-LEFT, DOWN-RIGHT.
C8_SpecOrder == ListedInOrder(SpecOrder)

\* C8 amended: the actions valid_actions returns, and so the neighbours the
\* search examines, appear in the order UP, LEFT, RIGHT, DOWN, UP-LEFT,
\* UP-RIGHT, DOWN-LEFT, DOWN-RIGHT, with invalid actions omitted.
C8_CodeOrder == ListedInOrder(CodeOrder)

\* the first expansion has enqueued a LEFT or RIGHT neighbour before the
\* DOWN neighbour
C8_Witness ==
    /\ pc[1] = "loop" /\ pops[1] = 1 /\ OnGrid(grid, start[1])
    /\ \E i, j \in 1..Len(queue[1]) :
          /\ i < j
          /\ branch[1][queue[1][i][1]][3] \in {"LEFT", "RIGHT"}
          /\ branch[1][queue[1][j][1]][3] = "DOWN"

\* C9: when start or goal is off the grid or on an occupied cell, this is
\* signalled before the search begins: nothing is popped from the frontier
\* and no path is returned.
C9_EndpointsChecked ==
    \A c \in Calls :
        (Active(c) /\ (~FreeCell(grid, start[c]) \/ ~FreeCell(grid, goal[c])))
        => pops[c] = 0 /\ pc[c] # "done"

\* the state of call c: its frontier, visited-set, record and the rest
CallState(c) ==
    <<queue[c], visited[c], branch[c], found[c], path[c], path_cost[c], n[c], pc[c],
      ret[c], exc[c], pops[c]>>

Overlaps(lowIndex, index, lo, hi) ==
    /\ lo < (lowIndex + index + 1) * Scale
    /\ hi >= (lowIndex + index) * Scale

CellTouches(cell, row, safety) ==
    /\ Overlaps(north_min, cell[1], row[1] - row[4] - safety, row[1] + row[4] + safety)
    /\ Overlaps(east_min, cell[2], row[2] - row[5] - safety, row[2] + row[5] + safety)

StrictlyInside(row, altitude, safety) ==
    /\ row[3] - row[6] - safety < altitude
    /\ altitude < row[3] + row[6] + safety

\* the step that handles obstacle cg_i + 1
PaintStep == cg_pc = "loop" /\ cg_i < Len(data) /\ cg_i' = cg_i + 1

Ones(g) == {cell \in DOMAIN g : g[cell] = 1}

\* C11: create_grid paints an obstacle if and only if the altitude lies
\* strictly inside its safety-inflated vertical extent: the step that handles
\* such an obstacle leaves every cell touching its inflated footprint at 1,
\* and the step that handles an obstacle whose extent the altitude is tangent
\* to, or outside of, leaves every cell unchanged.  In the boundary scenario
\* the grid returned has occupied cells at altitude 5 and none at altitudes
\* 20, 19 and -3.
C11_AltitudeGate ==
    [][ /\ PaintStep =>
             IF StrictlyInside(data[cg_i + 1], drone_altitude, safety_distance)
             THEN \A cell \in DOMAIN cg_grid :
                      CellTouches(cell, data[cg_i + 1], safety_distance) => cg_grid'[cell] = 1
             ELSE cg_grid' = cg_grid
        /\ (cg_pc' = "done" /\ data = <<ScenarioObstacle>>
                /\ safety_distance = ScenarioSafety) =>
             ((Ones(cg_grid') # {}) <=> (drone_altitude = 5 * Scale))
      ]_vars

\* a table of two obstacles has been handled: the altitude is strictly inside
\* the extent of the first, which occupies cells, and equal to the upper
\* bound of the second
C11_Witness ==
    /\ cg_pc = "done"
    /\ Len(data) = 2
    /\ StrictlyInside(data[1], drone_altitude, safety_distance)
    /\ drone_altitude = data[2][3] + data[2][6] + safety_distance
    /\ Ones(cg_grid) # {}

\* an obstacle the grid is painted for: its inflated vertical extent contains
\* the altitude
Painted(j) == StrictlyInside(data[j], drone_altitude, safety_distance)

Covered(cell) ==
    \E j \in 1..Len(data) : Painted(j) /\ CellTouches(cell, data[j], safety_distance)

\* C12: in the grid create_grid returns, every occupied cell lies within the
\* safety-inflated horizontal footprint of some obstacle whose inflated
\* vertical extent contains the altitude, and every free cell lies outside all
\* such footprints.  ("Within" is read at its weakest: the cell's unit square
\* and the closed footprint have a point in common.)
C12_FootprintExact ==
    cg_pc = "done" =>
        \A cell \in DOMAIN cg_grid : (cg_grid[cell] = 1) <=> Covered(cell)

\* the extreme edges of the footprints inflated by margin, in units of 1/Scale
EdgeMin(k, margin) == AMin({data[j][k] - (data[j][k + 3] + margin) : j \in 1..Len(data)})
EdgeMax(k, margin) == AMax({data[j][k] + (data[j][k + 3] + margin) : j \in 1..Len(data)})

\* ceil(max - min), the extremes taken as they are or rounded outwards to
\* whole numbers first (northMin = floor(..), northMax = ceil(..))
ExtentRaw(k, margin) == Ceil(EdgeMax(k, margin) - EdgeMin(k, margin))
ExtentRounded(k, margin) == Ceil(EdgeMax(k, margin)) - Floor(EdgeMin(k, margin))

Allocated == cg_pc \in {"loop", "done"}

GridShape ==
    /\ DOMAIN cg_grid = (0..(north_size - 1)) \X (0..(east_size - 1))
    /\ \A cell \in DOMAIN cg_grid : cg_grid[cell] \in {0, 1}

\* C13 as stated: the grid has ceil(northMax - northMin) rows and
\* ceil(eastMax - eastMin) columns, the minima and maxima being taken over the
\* safety-inflated footprints (under either reading of the rounding), and
\* every cell value is 0 or 1.
C13_InflatedExtent ==
    Allocated =>
        /\ north_size \in {ExtentRaw(1, safety_distance), ExtentRounded(1, safety_distance)}
        /\ east_size \in {ExtentRaw(2, safety_distance), ExtentRounded(2, safety_distance)}
        /\ GridShape

\* C13 amended: the grid has ceil(northMax - northMin) rows and
\* ceil(eastMax - eastMin) columns, where northMin = floor(min(north -
\* halfNorth)), northMax = ceil(max(north + halfNorth)) and likewise for east
\* are taken over the footprints without the safety margin; every cell value
\* is 0 or 1.
C13_PlainExtent ==
    Allocated =>
        /\ north_size = ExtentRounded(1, 0)
        /\ east_size = ExtentRounded(2, 0)
        /\ GridShape

\* a grid has been returned for a positive safety distance and edges that are
\* not whole numbers: rounding and inflation both matter
C13_Witness ==
    /\ cg_pc = "done"
    /\ safety_distance > 0
    /\ north_size > 0
    /\ east_size > 0
    /\ ExtentRaw(1, 0) # ExtentRounded(1, 0)
    /\ Ones(cg_grid) # {}

\* the step that paints obstacle cg_i + 1
PaintingStep ==
    PaintStep /\ StrictlyInside(data[cg_i + 1], drone_altitude, safety_distance)

\* the inclusive index rectangle of a list <<low, high, low, high>>
IndexRectangle(ob) == (ob[1]..ob[2]) \X (ob[3]..ob[4])

\* the step sets exactly the cells of the rectangle that the grid has
SetsRectangle(ob) ==
    \A cell \in DOMAIN cg_grid :
        cg_grid'[cell] = IF cell \in IndexRectangle(ob) THEN 1 ELSE cg_grid[cell]

\* C18 as stated: for every obstacle create_grid paints, the clamped indices
\* satisfy 0 <= low <= high < northSize for rows and 0 <= low <= high <
\* eastSize for columns, and the cells set to 1 are exactly the cells of that
\* inclusive index rectangle.
C18_IndicesInsideGrid ==
    [][PaintingStep =>
          /\ 0 <= obstacle'[1] /\ obstacle'[1] <= obstacle'[2] /\ obstacle'[2] < north_size
          /\ 0 <= obstacle'[3] /\ obstacle'[3] <= obstacle'[4] /\ obstacle'[4] < east_size
          /\ IndexRectangle(obstacle') \subseteq DOMAIN cg_grid
          /\ SetsRectangle(obstacle')
      ]_vars

\* ------------------------------------------------------- concurrent searches
\* how call c ended
CallOutcome(c) == <<pc[c], ret[c], exc[c]>>

\* the step taken is a step of call c
StepOf(c) == steps'[c] # steps[c]

\* C14: two searches on the same grid, with their own start and goal, whose
\* steps are interleaved in any order each end as they do when run alone
\* (same path and cost, or same exception): no step of one call changes the
\* other call's queue, visited set or branch dictionary, no step changes the
\* grid, and once a call has ended its outcome is that of the call run alone.
C14_Isolated ==
    [][\A c \in Calls :
          /\ StepOf(c) =>
                /\ grid' = grid
                /\ \A o \in Calls \ {c} :
                      /\ queue'[o] = queue[o]
                      /\ visited'[o] = visited[o]
                      /\ branch'[o] = branch[o]
                      /\ ret'[o] = ret[o]
          /\ (StepOf(c) /\ pc'[c] \in {"done", "raised"}) =>
                <<pc'[c], ret'[c], exc'[c]>> = SoloRun(grid, start[c], goal[c])
      ]_vars

\* both calls have ended, with different arguments and different non-empty
\* paths, after their loop steps alternated
C14_Witness ==
    /\ \A c \in Calls : pc[c] = "done" /\ ret[c].path # << >>
    /\ start[1] # start[2]
    /\ goal[1] # goal[2]
    /\ ret[1].path # ret[2].path

\* ---------------------------------------------------------------- termination
\* C15: for every grid and every start and goal inside it, the search loop
\* terminates (the goal is dequeued or the frontier becomes empty) and the
\* backward walk of the reconstruction terminates too: the call, once made,
\* eventually ends, having left the loop and the walk.
C15_Terminates ==
    (pc[1] = "loop" /\ steps[1] = 0 /\ OnGrid(grid, start[1]) /\ OnGrid(grid, goal[1]))
        ~> (Ended(1) /\ pops[1] <= NumRows(grid) * NumCols(grid) + 1)

\* a call has ended after a loop of several pops and a walk of several steps
C15_Witness ==
    /\ pc[1] = "done"
    /\ OnGrid(grid, start[1])
    /\ pops[1] >= 4
    /\ Len(ret[1].path) >= 3

\* ------------------------------------------------------- the search record
QueuedNodes(c) == {queue[c][i][1] : i \in 1..Len(queue[c])}

\* C16: the visited set is seeded with the start cell itself, so throughout a
\* search the start cell is on the frontier only as the initial (start, 0)
\* seed, never appended again, and the record never has an entry keyed by
\* start: record entries exist only for visited cells other than start.
\* (Stated for searches between free cells of the grid.)
C16_StartSeeded ==
    \A c \in Calls : (Active(c) /\ FreeCell(grid, start[c]) /\ FreeCell(grid, goal[c])) =>
        /\ start[c] \in visited[c]
        /\ start[c] \in QueuedNodes(c) => pops[c] = 0
        /\ start[c] \notin DOMAIN branch[c]
        /\ DOMAIN branch[c] \subseteq visited[c] \ {start[c]}

\* the entries a step of call c appends to the tail of its queue
Appended(c) ==
    IF pops'[c] = pops[c] THEN << >>
    ELSE SubSeq(queue'[c], Len(queue[c]), Len(queue'[c]))

Occurrences(s, x) == Cardinality({i \in 1..Len(s) : s[i][1] = x})

\* the cells other than start that a step of call c appends, marks or has
\* an entry for
Touched(c) ==
    (visited'[c] \cup DOMAIN branch[c] \cup DOMAIN branch'[c]
        \cup {queue'[c][i][1] : i \in 1..Len(queue'[c])}) \ {start[c]}

\* C17: visited-at-enqueue.  In every step of a search and for every cell x
\* other than start: x is appended to the frontier at most once in the step
\* and only if it was not visited before; a cell enters the visited set
\* exactly when it is appended, in the same step, and never leaves it (so it
\* is appended at most once in the whole search); its record entry is written
\* in that step, with the cost it is queued with, and an existing entry is
\* never changed afterwards.
C17_VisitedAtEnqueue ==
    [][\A c \in Calls : StepOf(c) =>
          /\ visited[c] \subseteq visited'[c]
          /\ queue'[c] = (IF pops'[c] = pops[c] THEN queue[c] ELSE Tail(queue[c])) \o Appended(c)
          /\ \A x \in Touched(c) :
                /\ Occurrences(Appended(c), x) <= 1
                /\ Occurrences(Appended(c), x) = 1 <=> (x \in visited'[c] /\ x \notin visited[c])
                /\ Occurrences(Appended(c), x) = 1 =>
                      /\ x \notin DOMAIN branch[c]
                      /\ x \in DOMAIN branch'[c]
                      /\ \E i \in 1..Len(Appended(c)) :
                            Appended(c)[i] = <<x, branch'[c][x][1]>>
                /\ x \in DOMAIN branch[c] =>
                      (x \in DOMAIN branch'[c] /\ branch'[c][x] = branch[c][x])
      ]_vars

\* a search on the test grid has ended with a record entry for a cell that a
\* cheaper route reaches: the entry written at enqueue time was kept
C17_Witness ==
    /\ pc[1] = "done"
    /\ grid = TestGrid
    /\ FreeCell(grid, start[1])
    /\ \E x \in DOMAIN branch[1] \ {start[1]} :
          CostLess(MinCost(grid, start[1], x), branch[1][x][1])

\* ------------------------------------------------------------------ hop count
\* the least number of valid moves that lead from a cell of `cells` to t, the
\* cells of `cells` being k moves away from the start (t is reachable)
RECURSIVE HopsFrom(_, _, _, _)
HopsFrom(g, cells, t, k) ==
    IF t \in cells THEN k ELSE HopsFrom(g, cells \cup Neighbours(g, cells), t, k + 1)

MinHops(g, s, t) == HopsFrom(g, {s}, t, 0)

\* C19: whenever the search succeeds with start # goal (between cells of the
\* grid), the returned path has the least possible number of actions: no
\* sequence of valid moves from start to goal is shorter.
C19_FewestMoves ==
    \A c \in Calls :
        (pc[c] = "done" /\ found[c] /\ start[c] # goal[c] /\ OnGrid(grid, start[c])) =>
            Len(ret[c].path) = MinHops(grid, start[c], goal[c])

\* a search has succeeded with a path of at least three moves around an
\* obstacle, the straight way being blocked
C19_Witness ==
    /\ pc[1] = "done"
    /\ found[1]
    /\ OnGrid(grid, start[1])
    /\ Len(ret[1].path) >= 3
    /\ Len(ret[1].path) = MinHops(grid, start[1], goal[1])
    /\ Len(ret[1].path) > Max2(IF start[1][1] >= goal[1][1] THEN start[1][1] - goal[1][1]
                                                           ELSE goal[1][1] - start[1][1],
                               IF start[1][2] >= goal[1][2] THEN start[1][2] - goal[1][2]
                                                           ELSE goal[1][2] - start[1][2])

\* ------------------------------------------------------- the record invariant
\* the cost of reaching a parent: 0 for start, its recorded cost otherwise
ParentCost(c, parent) == IF parent = start[c] THEN <<0, 0>> ELSE branch[c][parent][1]

\* C20: in every state of a search (started on a cell of the grid), each
\* record entry record[x] = (cost, parent, action) satisfies: x = parent +
\* action.delta, x is an on-grid free cell, parent is start or a cell that has
\* a record entry itself, and cost = cost(parent) + action.cost, where
\* cost(parent) is 0 when parent is start and record[parent].cost otherwise.
C20_RecordInvariant ==
    \A c \in Calls : (Active(c) /\ OnGrid(grid, start[c])) =>
        \A x \in DOMAIN branch[c] :
            LET cost == branch[c][x][1]
                parent == branch[c][x][2]
                action == branch[c][x][3]
            IN  /\ action \in ActionNames
                /\ x = Dest(parent, action)
                /\ FreeCell(grid, x)
                /\ parent = start[c] \/ parent \in DOMAIN branch[c]
                /\ cost[1] = ParentCost(c, parent)[1] + SpecCost(action)[1]
                /\ cost[2] = ParentCost(c, parent)[2] + SpecCost(action)[2]

\* the record holds an entry two moves deep: its parent is not start and has
\* an entry of its own, and the entry's move is a diagonal
C20_Witness ==
    /\ Active(1)
    /\ OnGrid(grid, start[1])
    /\ \E x \in DOMAIN branch[1] :
          /\ branch[1][x][2] # start[1]
          /\ branch[1][x][2] \in DOMAIN branch[1]
          /\ IsDiagonal(branch[1][x][3])
          /\ branch[1][x][1] = <<1, 1>>

\* ----------------------------------------------------------- collinearity
\* three points lie on a common line: some line a*x + b*y = c, with a and b
\* not both 0, passes through all three.  For integer points it is enough to
\* look at the directions <<a, b>> perpendicular to the difference of two of
\* the points, so a and b range over the differences of coordinates.
OnLine(a, b, p, q) == a * p[1] + b * p[2] = a * q[1] + b * q[2]

Span == (-2 * (MaxPoint + 2))..(2 * (MaxPoint + 2))

OnCommonLine(p1, p2, p3) ==
    \E a \in Span, b \in Span :
        /\ a # 0 \/ b # 0
        /\ OnLine(a, b, p1, p2)
        /\ OnLine(a, b, p1, p3)

\* x1(y2 - y3) + x2(y3 - y1) + x3(y1 - y2)
LineFormula(p1, p2, p3) ==
    p1[1] * (p2[2] - p3[2]) + p2[1] * (p3[2] - p1[2]) + p3[1] * (p1[2] - p2[2])

\* C21: for all triples of integer points within the bounds, collinearity_2D
\* returns True exactly when the three points lie on a common line, that is
\* when x1(y2-y3) + x2(y3-y1) + x3(y1-y2) = 0; it returns True for (1,2),
\* (2,3), (3,4); and it gives the same answer as collinearity_3D with its
\* default tolerance.
C21_Collinear ==
    /\ collinear_2D # << >> =>
          /\ collinear_2D[1] <=> OnCommonLine(points[1], points[2], points[3])
          /\ collinear_2D[1] <=> (LineFormula(points[1], points[2], points[3]) = 0)
          /\ points = TestPoints => collinear_2D[1]
    /\ (collinear_2D # << >> /\ collinear_3D # << >>) =>
          (collinear_2D[1] <=> collinear_3D[1])

\* both functions have answered True for three distinct points on a slanted
\* line
C21_Witness ==
    /\ collinear_2D = <<TRUE>>
    /\ collinear_3D = <<TRUE>>
    /\ points[1] # points[2]
    /\ points[2] # points[3]
    /\ points[1] # points[3]
    /\ points[1][1] # points[2][1]
    /\ points[1][2] # points[2][2]

\* --------------------------------------------------------- monotone inflation
\* the grid create_grid builds step by step is the one create_grid computes
BuiltGrid == [north_size |-> north_size, east_size |-> east_size, grid |-> cg_grid]

\* C22: monotone inflation.  For a fixed obstacle set and altitude, if s <= s'
\* then the grids built with safety distances s and s' have the same
\* dimensions, and every cell occupied with s is occupied with s': the grid
\* returned for s, compared with the grid for every larger s' within the
\* bounds.
C22_MonotoneInflation ==
    cg_pc = "done" =>
        /\ BuiltGrid = create_grid(data, drone_altitude, safety_distance)
        /\ \A larger \in safety_distance..(MaxSafety + 1) :
              LET other == create_grid(data, drone_altitude, larger)
              IN  /\ other.north_size = north_size
                  /\ other.east_size = east_size
                  /\ Ones(cg_grid) \subseteq Ones(other.grid)

\* a grid has been returned with occupied and free cells, and a larger safety
\* distance occupies more cells on the same grid
C22_Witness ==
    /\ cg_pc = "done"
    /\ Ones(cg_grid) # {}
    /\ Ones(cg_grid) # DOMAIN cg_grid
    /\ Ones(cg_grid) # Ones(create_grid(data, drone_altitude, safety_distance + 1).grid)

====
